---- MODULE Spec2Model ----
(***************************************************************************)
(* DO-ORM: schema-validated records with single-field secondary indexes   *)
(* over a key-value backend (DOModel / QueryBuilder).                      *)
(*                                                                         *)
(* Strings are sequences of tokens, so that key construction               *)
(* (`${tableName}:${id}`), prefix listing and prefix stripping are modelled *)
(* on the text of the keys.  JavaScript values are tagged records          *)
(* [t, s, n]: t is the runtime kind, s the text payload, n the numeric     *)
(* payload (a Date's instant, a number, a boolean as 0/1).                 *)
(***************************************************************************)
EXTENDS Integers, Sequences, FiniteSets, TLC

VARIABLES storage, loc, pre, calls

vars == <<storage, loc, pre, calls>>

(* ------------------------------ bounds -------------------------------- *)

MaxId == 2

MaxWs == 2

MaxTs == 2

MaxLimit == 2

\* the calls concurrent callers make in one run
MaxCalls == 4

(* --------------------------- JavaScript values ------------------------ *)

V(t, s, n) == [t |-> t, s |-> s, n |-> n]

Str(s) == V("string", s, 0)

Num(n) == V("number", <<>>, n)

NaN == V("number", <<"NaN">>, 0)

Bool(b) == V("boolean", <<>>, IF b THEN 1 ELSE 0)

DateV(d) == V("date", <<>>, d)

InvalidDate == V("date", <<"NaN">>, 0)

Obj == V("object", <<>>, 0)

Arr == V("array", <<>>, 0)

Null == V("null", <<>>, 0)

Undefined == V("undefined", <<>>, 0)

\* typeof value
typeof(v) ==
  CASE v.t \in {"string", "number", "boolean", "undefined"} -> v.t
    [] OTHER -> "object"

\* isNaN(value) for a number, isNaN(value.getTime()) for a Date
isNaN(v) == v.s = <<"NaN">>

\* a === b : primitives by value; Dates, objects and arrays by reference, and
\* every Date or object the model compares is a distinct allocation
\* (deserialize and the backend's copy always create fresh ones)
StrictEq(a, b) ==
  /\ a.t = b.t
  /\ a.t \in {"string", "number", "boolean", "null", "undefined"}
  /\ ~isNaN(a)
  /\ a.s = b.s
  /\ a.n = b.n

\* Date.prototype.toISOString: instant d is day d of January 2024, midnight UTC
toISOString(d) ==
  <<"2024-01-0" \o ToString(d) \o "T00", ":", "00", ":", "00.000Z">>

\* the instants whose ISO text the model can parse back
Instants == 0..(MaxTs + 1)

\* new Date(text)
newDate(s) ==
  IF \E d \in Instants : toISOString(d) = s
    THEN DateV(CHOOSE d \in Instants : toISOString(d) = s)
    ELSE InvalidDate

\* String(value)
String(v) ==
  CASE v.t = "string" -> v.s
    [] v.t = "number" -> IF isNaN(v) THEN <<"NaN">> ELSE <<ToString(v.n)>>
    [] v.t = "boolean" -> IF v.n = 1 THEN <<"true">> ELSE <<"false">>
    [] v.t = "date" -> IF isNaN(v) THEN <<"Invalid Date">>
                                   ELSE <<"Date(" \o ToString(v.n) \o ")">>
    [] v.t = "object" -> <<"[object Object]">>
    [] v.t = "array" -> <<>>
    [] v.t = "null" -> <<"null">>
    [] OTHER -> <<"undefined">>

(* ------------------------- text of the inputs ------------------------- *)

IdStr(i) == <<"evt_" \o ToString(i)>>

WsStr(i) == <<"ws_" \o ToString(i)>>

Ids == {IdStr(i) : i \in 1..MaxId}

Wss == {WsStr(i) : i \in 1..MaxWs}

Dates == 1..MaxTs

\* every token of the model in code-unit order (digits < ':' < '[' < letters)
TokenOrder ==
  <<"00", "00.000Z">> \o [d \in 1..(MaxTs + 2) |-> toISOString(d - 1)[1]]
    \o <<":", "[object Object]", "click", "events">>
    \o [i \in 1..MaxId |-> IdStr(i)[1]]
    \o <<"false", "index", "timestamp", "true", "view", "workspaceId">>
    \o [i \in 1..MaxWs |-> WsStr(i)[1]]

TokRank(tok) ==
  IF \E i \in 1..Len(TokenOrder) : TokenOrder[i] = tok
    THEN CHOOSE i \in 1..Len(TokenOrder) : TokenOrder[i] = tok
    ELSE 0

\* a < b on strings (lexicographic)
RECURSIVE StrLess(_, _)
StrLess(a, b) ==
  IF b = <<>> THEN FALSE
  ELSE IF a = <<>> THEN TRUE
  ELSE IF Head(a) = Head(b) THEN StrLess(Tail(a), Tail(b))
  ELSE TokRank(Head(a)) < TokRank(Head(b))

\* key.startsWith(prefix)
startsWith(s, prefix) ==
  /\ Len(prefix) <= Len(s)
  /\ SubSeq(s, 1, Len(prefix)) = prefix

\* key.replace(prefix, '') for a key that starts with prefix
stripPrefix(s, prefix) == SubSeq(s, Len(prefix) + 1, Len(s))

\* array.includes(x)
includes(arr, x) == \E i \in 1..Len(arr) : arr[i] = x

\* array.filter(e => e !== x)
RECURSIVE without(_, _)
without(arr, x) ==
  IF arr = <<>> THEN <<>>
  ELSE IF Head(arr) = x THEN without(Tail(arr), x)
  ELSE <<Head(arr)>> \o without(Tail(arr), x)

(* ------------------------------ backend ------------------------------- *)

\* a stored value is a serialized record or an index array
RecEntry(r) == [kind |-> "rec", rec |-> r, ids |-> <<>>]

IdxEntry(ids) == [kind |-> "idx", rec |-> <<>>, ids |-> ids]

NoEntry == [kind |-> "none", rec |-> <<>>, ids |-> <<>>]

EmptyStorage == <<>>

\* storage.get(key)
Get(S, k) == IF k \in DOMAIN S THEN S[k] ELSE NoEntry

\* storage.put(key, value)
Put(S, k, e) == [x \in (DOMAIN S) \cup {k} |-> IF x = k THEN e ELSE S[x]]

\* storage.delete(key)
Del(S, k) == [x \in (DOMAIN S) \ {k} |-> S[x]]

RECURSIVE SortKeys(_)
SortKeys(ks) ==
  IF ks = {} THEN <<>>
  ELSE LET m == CHOOSE k \in ks : \A o \in ks \ {k} : StrLess(k, o)
       IN <<m>> \o SortKeys(ks \ {m})

\* storage.list({ prefix }): the keys under the prefix; Durable Object
\* storage lists them in key order
List(S, prefix) == SortKeys({k \in DOMAIN S : startsWith(k, prefix)})

(* --------------------------- record type ------------------------------ *)

\* class Event extends DOModel<EventSchema>
Schema ==
  << [name |-> "id", type |-> "string"],
     [name |-> "workspaceId", type |-> "string"],
     [name |-> "timestamp", type |-> "date"],
     [name |-> "type", type |-> "string"],
     [name |-> "data", type |-> "object"] >>

Indexes == <<"workspaceId", "timestamp">>

TableName == <<"events">>

\* this.schema[key]
schemaType(key) ==
  IF \E i \in 1..Len(Schema) : Schema[i].name = key
    THEN (CHOOSE e \in {Schema[i] : i \in 1..Len(Schema)} : e.name = key).type
    ELSE "undefined"

\* data[field], undefined when the property is absent
Prop(data, field) == IF field \in DOMAIN data THEN data[field] ELSE Undefined

(* ------------------------------ errors -------------------------------- *)

NoErr == [kind |-> "none", field |-> ""]

Err(kind, field) == [kind |-> kind, field |-> field]

(* ---------------------------- validation ------------------------------ *)

\* DOModel.validateField: TRUE iff the value is accepted for the field type
validateField(value, fieldType) ==
  CASE fieldType = "string" -> typeof(value) = "string"
    [] fieldType = "number" -> typeof(value) = "number" /\ ~isNaN(value)
    [] fieldType = "boolean" -> typeof(value) = "boolean"
    [] fieldType = "date" -> value.t = "date" /\ ~isNaN(value)
    [] fieldType = "object" ->
         typeof(value) = "object" /\ value.t # "null" /\ value.t # "array"
    [] fieldType = "array" -> value.t = "array"
    [] OTHER -> FALSE

\* validation that checks the kinds of the fields present and not that
\* every field is present
validateSchema_KindsOnly(data) ==
  LET bad == {i \in 1..Len(Schema) :
                /\ Schema[i].name \in DOMAIN data
                /\ ~validateField(data[Schema[i].name], Schema[i].type)}
  IN IF bad = {} THEN NoErr
     ELSE Err("TypeMismatch", Schema[CHOOSE i \in bad : \A j \in bad : i <= j].name)

\* validation that checks presence only
validateSchema_PresenceOnly(data) ==
  IF \E i \in 1..Len(Schema) : Schema[i].name \notin DOMAIN data
    THEN Err("MissingField",
             Schema[CHOOSE i \in 1..Len(Schema) : Schema[i].name \notin DOMAIN data].name)
    ELSE NoErr

\* DOModel.validateSchema: the error of the first offending schema field
RECURSIVE validateFrom(_, _)
validateFrom(data, i) ==
  IF i > Len(Schema) THEN NoErr
  ELSE IF Schema[i].name \notin DOMAIN data
    THEN Err("MissingField", Schema[i].name)
  ELSE IF ~validateField(data[Schema[i].name], Schema[i].type)
    THEN Err("TypeMismatch", Schema[i].name)
  ELSE validateFrom(data, i + 1)

validateSchema(data) == validateFrom(data, 1)

(* -------------------------------- keys -------------------------------- *)

getRecordKey(tn, id) == tn \o <<":">> \o id

getIndexKey(tn, field, value) ==
  <<"index", ":">> \o tn \o <<":", field, ":">>
    \o (IF value.t = "date" THEN toISOString(value.n) ELSE String(value))

getIndexPrefix(tn, field) == <<"index", ":">> \o tn \o <<":", field, ":">>

(* -------------------------------- codec ------------------------------- *)

serialize(data) ==
  [k \in DOMAIN data |->
     IF data[k].t = "date" THEN Str(toISOString(data[k].n)) ELSE data[k]]

deserialize(data) ==
  [k \in DOMAIN data |->
     IF schemaType(k) = "date" /\ typeof(data[k]) = "string"
       THEN newDate(data[k].s) ELSE data[k]]

(* ------------------------- query options ------------------------------ *)

\* one entry of Object.entries(options.where)
Cond(f, v) == [f |-> f, v |-> v]

NoOrder == [field |-> "", direction |-> ""]

\* QueryOptions: where is a sequence of entries in insertion order and is
\* meaningful only when hasWhere; an absent bound is Undefined; an absent
\* limit is -1
Options(hasWhere, where, after, before, limit, orderBy) ==
  [hasWhere |-> hasWhere, where |-> where, after |-> after,
   before |-> before, limit |-> limit, orderBy |-> orderBy]

NoOptions == Options(FALSE, <<>>, Undefined, Undefined, -1, NoOrder)

(* --------------------- the state of one call -------------------------- *)

\* op: the operation; pc: the backend call the operation issues next;
\* nw: backend writes (put, delete) issued so far; found: find's result is
\* a record; ret / retb / out / n: the value returned
Idle ==
  [op |-> "idle", pc |-> "done", status |-> "idle", err |-> NoErr,
   id |-> <<>>, data |-> <<>>, q |-> NoOptions,
   existing |-> <<>>, updated |-> <<>>, changed |-> FALSE,
   i |-> 1, ids |-> <<>>, recs |-> <<>>, nw |-> 0,
   found |-> FALSE, ret |-> <<>>, retb |-> FALSE, out |-> <<>>, n |-> 0]

Call(op, pc, id, data, q) ==
  [Idle EXCEPT !.op = op, !.pc = pc, !.status = "running",
               !.id = id, !.data = data, !.q = q]

\* the outcome of one step: the backend and the call's state after it
Step(S, l) == [st |-> S, l |-> l]

\* throw new Error(...)
Throw(S, l, e) ==
  Step(S, [l EXCEPT !.pc = "done", !.status = "error", !.err = e])

\* the backend call of this step failed: its error propagates
BackendError == Err("Backend", "")

(* ----------------------------- indexes -------------------------------- *)

\* the array read from an index key: storage.get<string[]>(indexKey) || []
idsOf(e) == IF e.kind = "idx" THEN e.ids ELSE <<>>

\* return of create / update once updateIndexes has finished
finishWrite(S, l) ==
  Step(S, [l EXCEPT !.pc = "done", !.status = "ok", !.found = TRUE,
                    !.ret = IF l.op = "create" THEN l.data ELSE l.updated])

\* the loop of updateIndexes reaches index i
ixLoop(S, l, i) ==
  IF i > Len(Indexes) THEN finishWrite(S, l)
  ELSE Step(S, [l EXCEPT !.pc = "ix_get", !.i = i])

\* the record whose values updateIndexes indexes
ixData(l) == IF l.op = "create" THEN l.data ELSE l.updated

\* the put merges the identifier into the entry as it is at the time of
\* the put, not into the array read before
updateIndexes_MergesAtPut(tn, S, l, fail) ==
  LET indexKey == getIndexKey(tn, Indexes[l.i], Prop(ixData(l), Indexes[l.i]))
      current == idsOf(Get(S, indexKey))
  IN IF fail THEN Throw(S, l, BackendError)
     ELSE IF l.pc = "ix_get"
       THEN LET existingIds == idsOf(Get(S, indexKey))
            IN IF ~includes(existingIds, l.id)
                 THEN Step(S, [l EXCEPT !.pc = "ix_put", !.ids = existingIds])
                 ELSE ixLoop(S, l, l.i + 1)
     ELSE ixLoop(Put(S, indexKey,
                     IdxEntry(IF includes(current, l.id) THEN current
                              ELSE Append(current, l.id))),
                 [l EXCEPT !.nw = l.nw + 1], l.i + 1)

\* the put appends the identifier to the entry as it is at the time of the
\* put, which another caller may have written since the get
updateIndexes_AppendsToCurrent(tn, S, l, fail) ==
  LET indexKey == getIndexKey(tn, Indexes[l.i], Prop(ixData(l), Indexes[l.i]))
  IN IF fail THEN Throw(S, l, BackendError)
     ELSE IF l.pc = "ix_get"
       THEN LET existingIds == idsOf(Get(S, indexKey))
            IN IF ~includes(existingIds, l.id)
                 THEN Step(S, [l EXCEPT !.pc = "ix_put", !.ids = existingIds])
                 ELSE ixLoop(S, l, l.i + 1)
     ELSE ixLoop(Put(S, indexKey, IdxEntry(Append(idsOf(Get(S, indexKey)), l.id))),
                 [l EXCEPT !.nw = l.nw + 1], l.i + 1)

\* the identifier is pushed and the array put whether or not it is listed
updateIndexes_AlwaysPuts(tn, S, l, fail) ==
  LET indexKey == getIndexKey(tn, Indexes[l.i], Prop(ixData(l), Indexes[l.i]))
  IN IF fail THEN Throw(S, l, BackendError)
     ELSE IF l.pc = "ix_get"
       THEN Step(S, [l EXCEPT !.pc = "ix_put", !.ids = idsOf(Get(S, indexKey))])
     ELSE ixLoop(Put(S, indexKey, IdxEntry(Append(l.ids, l.id))),
                 [l EXCEPT !.nw = l.nw + 1], l.i + 1)

\* DOModel.updateIndexes, one backend call
updateIndexes(tn, S, l, fail) ==
  LET indexKey == getIndexKey(tn, Indexes[l.i], Prop(ixData(l), Indexes[l.i]))
  IN IF fail THEN Throw(S, l, BackendError)
     ELSE IF l.pc = "ix_get"
       THEN LET existingIds == idsOf(Get(S, indexKey))
            IN IF ~includes(existingIds, l.id)
                 THEN Step(S, [l EXCEPT !.pc = "ix_put", !.ids = existingIds])
                 ELSE ixLoop(S, l, l.i + 1)
     ELSE ixLoop(Put(S, indexKey, IdxEntry(Append(l.ids, l.id))),
                 [l EXCEPT !.nw = l.nw + 1], l.i + 1)

\* the loop of removeFromIndexes stops before the last index
rmLoop_StopsEarly(S, l, i) ==
  IF i >= Len(Indexes)
    THEN Step(S, [l EXCEPT !.pc = IF l.op = "update" THEN "u_put" ELSE "d_del"])
    ELSE Step(S, [l EXCEPT !.pc = "rm_get", !.i = i])

\* the loop of removeFromIndexes reaches index i; after the loop update puts
\* the record and delete deletes it
rmLoop(S, l, i) ==
  IF i > Len(Indexes)
    THEN Step(S, [l EXCEPT !.pc = IF l.op = "update" THEN "u_put" ELSE "d_del"])
    ELSE Step(S, [l EXCEPT !.pc = "rm_get", !.i = i])

\* the filtered array is put back even when it is empty
removeFromIndexes_KeepsEmpty(tn, S, l, fail) ==
  LET indexKey == getIndexKey(tn, Indexes[l.i], Prop(l.existing, Indexes[l.i]))
  IN IF fail THEN Throw(S, l, BackendError)
     ELSE IF l.pc = "rm_get"
       THEN Step(S, [l EXCEPT !.pc = "rm_write",
                              !.ids = without(idsOf(Get(S, indexKey)), l.id)])
     ELSE rmLoop(Put(S, indexKey, IdxEntry(l.ids)),
                 [l EXCEPT !.nw = l.nw + 1], l.i + 1)

\* DOModel.removeFromIndexes, one backend call
removeFromIndexes(tn, S, l, fail) ==
  LET indexKey == getIndexKey(tn, Indexes[l.i], Prop(l.existing, Indexes[l.i]))
  IN IF fail THEN Throw(S, l, BackendError)
     ELSE IF l.pc = "rm_get"
       THEN Step(S, [l EXCEPT !.pc = "rm_write",
                              !.ids = without(idsOf(Get(S, indexKey)), l.id)])
     ELSE IF Len(l.ids) > 0
       THEN rmLoop(Put(S, indexKey, IdxEntry(l.ids)),
                   [l EXCEPT !.nw = l.nw + 1], l.i + 1)
     ELSE rmLoop(Del(S, indexKey), [l EXCEPT !.nw = l.nw + 1], l.i + 1)

(* ------------------------------- CRUD --------------------------------- *)

\* !id for the id of a validated record
idMissing(data) ==
  \/ "id" \notin DOMAIN data
  \/ data["id"].t \in {"undefined", "null"}
  \/ data["id"] = Str(<<>>)
  \/ data["id"] = Num(0)
  \/ data["id"] = Bool(FALSE)

\* the existence check of create skipped
alreadyExists_Never(tn, S, id) == FALSE

\* const existing = await this.storage.get(key); if (existing) ...
alreadyExists(tn, S, id) == Get(S, getRecordKey(tn, id)) # NoEntry

\* the put is conditional: it fails when the key has a record by then
create_ChecksAtPut(tn, S, l, fail) ==
  IF l.pc = "c_get"
    THEN IF validateSchema(l.data) # NoErr
           THEN Throw(S, l, validateSchema(l.data))
         ELSE IF idMissing(l.data) THEN Throw(S, l, Err("NoId", "id"))
         ELSE IF fail THEN Throw(S, l, BackendError)
         ELSE LET id == String(l.data["id"])
              IN IF alreadyExists(tn, S, id)
                   THEN Throw(S, [l EXCEPT !.id = id], Err("AlreadyExists", "id"))
                   ELSE Step(S, [l EXCEPT !.id = id, !.pc = "c_put"])
  ELSE IF l.pc = "c_put"
    THEN IF fail THEN Throw(S, l, BackendError)
         ELSE IF alreadyExists(tn, S, l.id)
           THEN Throw(S, l, Err("AlreadyExists", "id"))
         ELSE ixLoop(Put(S, getRecordKey(tn, l.id), RecEntry(serialize(l.data))),
                     [l EXCEPT !.nw = l.nw + 1], 1)
  ELSE updateIndexes(tn, S, l, fail)

\* a failure of the index update removes the record just put
create_RollsBack(tn, S, l, fail) ==
  IF l.pc = "c_get"
    THEN IF validateSchema(l.data) # NoErr
           THEN Throw(S, l, validateSchema(l.data))
         ELSE IF idMissing(l.data) THEN Throw(S, l, Err("NoId", "id"))
         ELSE IF fail THEN Throw(S, l, BackendError)
         ELSE LET id == String(l.data["id"])
              IN IF alreadyExists(tn, S, id)
                   THEN Throw(S, [l EXCEPT !.id = id], Err("AlreadyExists", "id"))
                   ELSE Step(S, [l EXCEPT !.id = id, !.pc = "c_put"])
  ELSE IF l.pc = "c_put"
    THEN IF fail THEN Throw(S, l, BackendError)
         ELSE ixLoop(Put(S, getRecordKey(tn, l.id), RecEntry(serialize(l.data))),
                     [l EXCEPT !.nw = l.nw + 1], 1)
  ELSE IF fail THEN Throw(Del(S, getRecordKey(tn, l.id)), l, BackendError)
  ELSE updateIndexes(tn, S, l, fail)

\* DOModel.create, one backend call
create(tn, S, l, fail) ==
  IF l.pc = "c_get"
    THEN IF validateSchema(l.data) # NoErr
           THEN Throw(S, l, validateSchema(l.data))
         ELSE IF idMissing(l.data) THEN Throw(S, l, Err("NoId", "id"))
         ELSE IF fail THEN Throw(S, l, BackendError)
         ELSE LET id == String(l.data["id"])
              IN IF alreadyExists(tn, S, id)
                   THEN Throw(S, [l EXCEPT !.id = id], Err("AlreadyExists", "id"))
                   ELSE Step(S, [l EXCEPT !.id = id, !.pc = "c_put"])
  ELSE IF l.pc = "c_put"
    THEN IF fail THEN Throw(S, l, BackendError)
         ELSE ixLoop(Put(S, getRecordKey(tn, l.id), RecEntry(serialize(l.data))),
                     [l EXCEPT !.nw = l.nw + 1], 1)
  ELSE updateIndexes(tn, S, l, fail)

\* DOModel.find: the stored value of the key, absent or deserialized
find(tn, S, id) ==
  LET e == Get(S, getRecordKey(tn, id))
  IN [found |-> e # NoEntry,
      rec |-> IF e = NoEntry THEN <<>> ELSE deserialize(e.rec)]

\* { ...existing, ...updates }
merge(existing, updates) ==
  [k \in (DOMAIN existing) \cup (DOMAIN updates) |->
     IF k \in DOMAIN updates THEN updates[k] ELSE existing[k]]

\* only the first indexed field is compared
indexedFieldsChanged_FirstOnly(updates, existing) ==
  /\ Indexes[1] \in DOMAIN updates
  /\ ~StrictEq(updates[Indexes[1]], Prop(existing, Indexes[1]))

\* this.indexes.some(field => field in updates && updates[field] !== existing[field])
indexedFieldsChanged(updates, existing) ==
  \E i \in 1..Len(Indexes) :
    /\ Indexes[i] \in DOMAIN updates
    /\ ~StrictEq(updates[Indexes[i]], Prop(existing, Indexes[i]))

\* the put is conditional: it fails when the key has no record by then
update_ChecksAtPut(tn, S, l, fail) ==
  IF l.pc = "u_find"
    THEN IF fail THEN Throw(S, l, BackendError)
         ELSE LET existing == find(tn, S, l.id)
                  updated == merge(existing.rec, l.data)
                  changed == indexedFieldsChanged(l.data, existing.rec)
                  l1 == [l EXCEPT !.existing = existing.rec,
                                  !.updated = updated, !.changed = changed]
              IN IF ~existing.found THEN Throw(S, l, Err("NotFound", "id"))
                 ELSE IF validateSchema(updated) # NoErr
                   THEN Throw(S, l1, validateSchema(updated))
                 ELSE IF changed THEN rmLoop(S, l1, 1)
                 ELSE Step(S, [l1 EXCEPT !.pc = "u_put"])
  ELSE IF l.pc \in {"rm_get", "rm_write"} THEN removeFromIndexes(tn, S, l, fail)
  ELSE IF l.pc = "u_put"
    THEN IF fail THEN Throw(S, l, BackendError)
         ELSE IF ~find(tn, S, l.id).found THEN Throw(S, l, Err("NotFound", "id"))
         ELSE LET S1 == Put(S, getRecordKey(tn, l.id), RecEntry(serialize(l.updated)))
                  l1 == [l EXCEPT !.nw = l.nw + 1]
              IN IF l.changed THEN ixLoop(S1, l1, 1) ELSE finishWrite(S1, l1)
  ELSE updateIndexes(tn, S, l, fail)

\* update that puts the record before it removes the old index entries
\* (the removal is left to a later call)
update_PutsFirst(tn, S, l, fail) ==
  IF l.pc = "u_find"
    THEN IF fail THEN Throw(S, l, BackendError)
         ELSE LET existing == find(tn, S, l.id)
                  updated == merge(existing.rec, l.data)
                  changed == indexedFieldsChanged(l.data, existing.rec)
                  l1 == [l EXCEPT !.existing = existing.rec,
                                  !.updated = updated, !.changed = changed]
              IN IF ~existing.found THEN Throw(S, l, Err("NotFound", "id"))
                 ELSE IF validateSchema(updated) # NoErr
                   THEN Throw(S, l1, validateSchema(updated))
                 ELSE Step(S, [l1 EXCEPT !.pc = "u_put"])
  ELSE IF l.pc = "u_put"
    THEN IF fail THEN Throw(S, l, BackendError)
         ELSE LET S1 == Put(S, getRecordKey(tn, l.id), RecEntry(serialize(l.updated)))
                  l1 == [l EXCEPT !.nw = l.nw + 1]
              IN IF l.changed THEN ixLoop(S1, l1, 1) ELSE finishWrite(S1, l1)
  ELSE updateIndexes(tn, S, l, fail)

\* update that does not stop on an absent record
update_Upsert(tn, S, l, fail) ==
  IF l.pc = "u_find"
    THEN IF fail THEN Throw(S, l, BackendError)
         ELSE LET existing == find(tn, S, l.id)
                  updated == merge(existing.rec, l.data)
                  changed == indexedFieldsChanged(l.data, existing.rec)
                  l1 == [l EXCEPT !.existing = existing.rec,
                                  !.updated = updated, !.changed = changed]
              IN IF validateSchema(updated) # NoErr
                   THEN Throw(S, l1, validateSchema(updated))
                 ELSE IF changed THEN rmLoop(S, l1, 1)
                 ELSE Step(S, [l1 EXCEPT !.pc = "u_put"])
  ELSE IF l.pc \in {"rm_get", "rm_write"} THEN removeFromIndexes(tn, S, l, fail)
  ELSE IF l.pc = "u_put"
    THEN IF fail THEN Throw(S, l, BackendError)
         ELSE LET S1 == Put(S, getRecordKey(tn, l.id), RecEntry(serialize(l.updated)))
                  l1 == [l EXCEPT !.nw = l.nw + 1]
              IN IF l.changed THEN ixLoop(S1, l1, 1) ELSE finishWrite(S1, l1)
  ELSE updateIndexes(tn, S, l, fail)

\* DOModel.update, one backend call
update(tn, S, l, fail) ==
  IF l.pc = "u_find"
    THEN IF fail THEN Throw(S, l, BackendError)
         ELSE LET existing == find(tn, S, l.id)
                  updated == merge(existing.rec, l.data)
                  changed == indexedFieldsChanged(l.data, existing.rec)
                  l1 == [l EXCEPT !.existing = existing.rec,
                                  !.updated = updated, !.changed = changed]
              IN IF ~existing.found THEN Throw(S, l, Err("NotFound", "id"))
                 ELSE IF validateSchema(updated) # NoErr
                   THEN Throw(S, l1, validateSchema(updated))
                 ELSE IF changed THEN rmLoop(S, l1, 1)
                 ELSE Step(S, [l1 EXCEPT !.pc = "u_put"])
  ELSE IF l.pc \in {"rm_get", "rm_write"} THEN removeFromIndexes(tn, S, l, fail)
  ELSE IF l.pc = "u_put"
    THEN IF fail THEN Throw(S, l, BackendError)
         ELSE LET S1 == Put(S, getRecordKey(tn, l.id), RecEntry(serialize(l.updated)))
                  l1 == [l EXCEPT !.nw = l.nw + 1]
              IN IF l.changed THEN ixLoop(S1, l1, 1) ELSE finishWrite(S1, l1)
  ELSE updateIndexes(tn, S, l, fail)

\* delete that reports true for an absent record
delete_AlwaysTrue(tn, S, l, fail) ==
  IF l.pc = "d_find"
    THEN IF fail THEN Throw(S, l, BackendError)
         ELSE LET existing == find(tn, S, l.id)
              IN IF ~existing.found
                   THEN Step(S, [l EXCEPT !.pc = "done", !.status = "ok",
                                          !.retb = TRUE])
                   ELSE rmLoop(S, [l EXCEPT !.existing = existing.rec], 1)
  ELSE IF l.pc \in {"rm_get", "rm_write"} THEN removeFromIndexes(tn, S, l, fail)
  ELSE IF fail THEN Throw(S, l, BackendError)
  ELSE Step(Del(S, getRecordKey(tn, l.id)),
            [l EXCEPT !.pc = "done", !.status = "ok", !.retb = TRUE,
                      !.nw = l.nw + 1])

\* DOModel.delete, one backend call
delete(tn, S, l, fail) ==
  IF l.pc = "d_find"
    THEN IF fail THEN Throw(S, l, BackendError)
         ELSE LET existing == find(tn, S, l.id)
              IN IF ~existing.found
                   THEN Step(S, [l EXCEPT !.pc = "done", !.status = "ok",
                                          !.retb = FALSE])
                   ELSE rmLoop(S, [l EXCEPT !.existing = existing.rec], 1)
  ELSE IF l.pc \in {"rm_get", "rm_write"} THEN removeFromIndexes(tn, S, l, fail)
  ELSE IF fail THEN Throw(S, l, BackendError)
  ELSE Step(Del(S, getRecordKey(tn, l.id)),
            [l EXCEPT !.pc = "done", !.status = "ok", !.retb = TRUE,
                      !.nw = l.nw + 1])

\* find puts the record it has read back under its key
findCall_WritesBack(tn, S, l, fail) ==
  IF fail THEN Throw(S, l, BackendError)
  ELSE LET record == find(tn, S, l.id)
       IN Step(IF record.found
                 THEN Put(S, getRecordKey(tn, l.id), RecEntry(serialize(record.rec)))
                 ELSE S,
               [l EXCEPT !.pc = "done", !.status = "ok",
                         !.found = record.found, !.ret = record.rec,
                         !.nw = IF record.found THEN l.nw + 1 ELSE l.nw])

\* DOModel.find as a call of its own
findCall(tn, S, l, fail) ==
  IF fail THEN Throw(S, l, BackendError)
  ELSE Step(S, [l EXCEPT !.pc = "done", !.status = "ok",
                         !.found = find(tn, S, l.id).found,
                         !.ret = find(tn, S, l.id).rec])

\* the listing is not restricted to the table prefix
count_EveryKey(tn, S, l, fail) ==
  IF fail THEN Throw(S, l, BackendError)
  ELSE Step(S, [l EXCEPT !.pc = "done", !.status = "ok",
                         !.n = Len(List(S, <<>>))])

\* DOModel.count
count(tn, S, l, fail) ==
  IF fail THEN Throw(S, l, BackendError)
  ELSE Step(S, [l EXCEPT !.pc = "done", !.status = "ok",
                         !.n = Len(List(S, tn \o <<":">>))])

(* ------------------------------- query -------------------------------- *)

\* the entry used for the index lookup is not re-applied
matchesWhere_TrustIndex(record, where) ==
  \A i \in 2..Len(where) : StrictEq(Prop(record, where[i].f), where[i].v)

\* the where filter: record[key] === value for every entry of options.where
matchesWhere(record, where) ==
  \A i \in 1..Len(where) : StrictEq(Prop(record, where[i].f), where[i].v)

\* only the first date field of the schema is tested
dateRangeKeeps_FirstDateOnly(schema, record, after, before) ==
  LET dates == {i \in 1..Len(schema) : schema[i].type = "date"}
  IN \A i \in {j \in dates : \A k \in dates : j <= k} :
       Prop(record, schema[i].name).t = "date" =>
         LET dateValue == Prop(record, schema[i].name)
         IN /\ ~(after.t = "date" /\ ~isNaN(dateValue) /\ dateValue.n <= after.n)
            /\ ~(before.t = "date" /\ ~isNaN(dateValue) /\ dateValue.n >= before.n)

\* the predicate of the date range filter for a record type with the given
\* schema: every schema field of type date that holds a Date is tested
\* against both bounds
dateRangeKeeps(schema, record, after, before) ==
  \A i \in 1..Len(schema) :
    (schema[i].type = "date" /\ Prop(record, schema[i].name).t = "date") =>
      LET dateValue == Prop(record, schema[i].name)
      IN /\ ~(after.t = "date" /\ ~isNaN(dateValue) /\ dateValue.n <= after.n)
         /\ ~(before.t = "date" /\ ~isNaN(dateValue) /\ dateValue.n >= before.n)

\* the bounds are inclusive: a record at a bound passes
inDateRange_Inclusive(record, after, before) ==
  \A i \in 1..Len(Schema) :
    (Schema[i].type = "date" /\ Prop(record, Schema[i].name).t = "date") =>
      LET dateValue == Prop(record, Schema[i].name)
      IN /\ ~(after.t = "date" /\ ~isNaN(dateValue) /\ dateValue.n < after.n)
         /\ ~(before.t = "date" /\ ~isNaN(dateValue) /\ dateValue.n > before.n)

\* the date range filter on one record: every schema field of type date
\* that holds a Date is tested against both bounds
inDateRange(record, after, before) ==
  dateRangeKeeps(Schema, record, after, before)

\* array.filter(pred) with pred given as the set of records it keeps
RECURSIVE filterWhere(_, _)
filterWhere(records, where) ==
  IF records = <<>> THEN <<>>
  ELSE (IF matchesWhere(Head(records), where) THEN <<Head(records)>> ELSE <<>>)
         \o filterWhere(Tail(records), where)

RECURSIVE filterDates(_, _, _)
filterDates(records, after, before) ==
  IF records = <<>> THEN <<>>
  ELSE (IF inDateRange(Head(records), after, before)
          THEN <<Head(records)>> ELSE <<>>)
         \o filterDates(Tail(records), after, before)

\* aVal < bVal
Less(a, b) ==
  CASE a.t = "string" /\ b.t = "string" -> StrLess(a.s, b.s)
    [] a.t \in {"number", "date", "boolean"} /\ b.t \in {"number", "date", "boolean"} ->
         ~isNaN(a) /\ ~isNaN(b) /\ a.n < b.n
    [] OTHER -> FALSE

\* the comparator does not invert for 'desc'
comparison_IgnoresDirection(a, b, orderBy) ==
  LET aVal == Prop(a, orderBy.field)
      bVal == Prop(b, orderBy.field)
  IN IF Less(bVal, aVal) THEN 1 ELSE IF Less(aVal, bVal) THEN -1 ELSE 0

\* the comparator of the sort
comparison(a, b, orderBy) ==
  LET aVal == Prop(a, orderBy.field)
      bVal == Prop(b, orderBy.field)
      c == IF Less(bVal, aVal) THEN 1 ELSE IF Less(aVal, bVal) THEN -1 ELSE 0
  IN IF orderBy.direction = "desc" THEN -c ELSE c

\* insert r into a sorted sequence after every element that does not
\* compare greater (Array.prototype.sort is stable)
RECURSIVE insertSorted(_, _, _)
insertSorted(sorted, r, orderBy) ==
  IF sorted = <<>> THEN <<r>>
  ELSE IF comparison(Head(sorted), r, orderBy) > 0 THEN <<r>> \o sorted
  ELSE <<Head(sorted)>> \o insertSorted(Tail(sorted), r, orderBy)

RECURSIVE sortFrom(_, _, _)
sortFrom(sorted, rest, orderBy) ==
  IF rest = <<>> THEN sorted
  ELSE sortFrom(insertSorted(sorted, Head(rest), orderBy), Tail(rest), orderBy)

\* filtered.sort(comparator)
sort(records, orderBy) == sortFrom(<<>>, records, orderBy)

\* filtered.slice(0, limit)
slice(records, limit) ==
  SubSeq(records, 1, IF limit < Len(records) THEN limit ELSE Len(records))

\* the in-memory part of query: where filter, date range, sort, limit
pipeline(records, q) ==
  LET f1 == IF q.hasWhere THEN filterWhere(records, q.where) ELSE records
      f2 == IF q.after.t = "date" \/ q.before.t = "date"
              THEN filterDates(f1, q.after, q.before) ELSE f1
      f3 == IF q.orderBy # NoOrder THEN sort(f2, q.orderBy) ELSE f2
  IN IF q.limit > 0 THEN slice(f3, q.limit) ELSE f3

\* the query uses the index of the first where entry
usesIndex(q) ==
  /\ q.hasWhere
  /\ Len(q.where) > 0
  /\ includes(Indexes, q.where[1].f)

\* the scan runs whenever the candidate list is empty, where clause or not
fullScan_WhenNoCandidates(q, candidateIds) == Len(candidateIds) = 0

\* if (candidateIds.length === 0 && !options.where): an options.where that
\* is an object, the empty one included, is truthy
fullScan(q, candidateIds) == Len(candidateIds) = 0 /\ ~q.hasWhere

\* Array.from(allKeys.keys()).map(key => key.toString().replace(prefix, ''))
RECURSIVE stripAll(_, _)
stripAll(keys, prefix) ==
  IF keys = <<>> THEN <<>>
  ELSE <<stripPrefix(Head(keys), prefix)>> \o stripAll(Tail(keys), prefix)

\* the loop that loads the candidates reaches candidate i
loadLoop(S, l, i) ==
  IF i > Len(l.ids)
    THEN Step(S, [l EXCEPT !.pc = "done", !.status = "ok",
                           !.out = pipeline(l.recs, l.q)])
    ELSE Step(S, [l EXCEPT !.pc = "q_load", !.i = i])

\* query that fails on a candidate with no stored record
query_FailsOnMissing(tn, S, l, fail) ==
  IF l.pc = "q_begin"
    THEN IF usesIndex(l.q)
           THEN IF fail THEN Throw(S, l, BackendError)
                ELSE loadLoop(S, [l EXCEPT !.ids =
                       idsOf(Get(S, getIndexKey(tn, l.q.where[1].f, l.q.where[1].v)))], 1)
         ELSE IF fullScan(l.q, <<>>)
           THEN IF fail THEN Throw(S, l, BackendError)
                ELSE loadLoop(S, [l EXCEPT !.ids =
                       stripAll(List(S, tn \o <<":">>), tn \o <<":">>)], 1)
         ELSE loadLoop(S, l, 1)
  ELSE IF fail THEN Throw(S, l, BackendError)
  ELSE LET record == find(tn, S, l.ids[l.i])
       IN IF ~record.found THEN Throw(S, l, Err("NotFound", "id"))
          ELSE loadLoop(S, [l EXCEPT !.recs = Append(l.recs, record.rec)], l.i + 1)

\* DOModel.query, one backend call (none when the candidate list is known
\* to be empty without one)
query(tn, S, l, fail) ==
  IF l.pc = "q_begin"
    THEN IF usesIndex(l.q)
           THEN IF fail THEN Throw(S, l, BackendError)
                ELSE loadLoop(S, [l EXCEPT !.ids =
                       idsOf(Get(S, getIndexKey(tn, l.q.where[1].f, l.q.where[1].v)))], 1)
         ELSE IF fullScan(l.q, <<>>)
           THEN IF fail THEN Throw(S, l, BackendError)
                ELSE loadLoop(S, [l EXCEPT !.ids =
                       stripAll(List(S, tn \o <<":">>), tn \o <<":">>)], 1)
         ELSE loadLoop(S, l, 1)
  ELSE IF fail THEN Throw(S, l, BackendError)
  ELSE LET record == find(tn, S, l.ids[l.i])
       IN loadLoop(S, [l EXCEPT !.recs = IF record.found
                                           THEN Append(l.recs, record.rec)
                                           ELSE l.recs], l.i + 1)

(* ------------------------------ calls --------------------------------- *)

\* one backend call of the running operation
stepOf(tn, S, l, fail) ==
  CASE l.op = "create" -> create(tn, S, l, fail)
    [] l.op = "update" -> update(tn, S, l, fail)
    [] l.op = "delete" -> delete(tn, S, l, fail)
    [] l.op = "find" -> findCall(tn, S, l, fail)
    [] l.op = "count" -> count(tn, S, l, fail)
    [] OTHER -> query(tn, S, l, fail)

\* the operation run to its return with no other call in between
RECURSIVE run(_, _, _)
run(tn, S, l) ==
  IF l.pc = "done" THEN Step(S, l)
  ELSE LET r == stepOf(tn, S, l, FALSE) IN run(tn, r.st, r.l)

(* ------------------------------ inputs -------------------------------- *)

Types == {<<"click">>, <<"view">>}

\* a record that passes validation
Event(id, ws, d, type) ==
  [id |-> Str(id), workspaceId |-> Str(ws), timestamp |-> DateV(d),
   type |-> Str(type), data |-> Obj]

ValidEvents == {Event(id, ws, d, <<"click">>) : id \in Ids, ws \in Wss, d \in Dates}

\* r without the property k
dropField(r, k) == [x \in (DOMAIN r) \ {k} |-> r[x]]

\* records that validation or the id check rejects
RejectedEvents ==
  LET r == Event(IdStr(1), WsStr(1), 1, <<"click">>)
  IN { dropField(r, "type"),
       [r EXCEPT !["workspaceId"] = Num(123)],
       [r EXCEPT !["timestamp"] = InvalidDate],
       [r EXCEPT !["data"] = Null],
       [r EXCEPT !["id"] = Str(<<>>)],
       dropField([r EXCEPT !["workspaceId"] = Num(123)], "type"),
       dropField([r EXCEPT !["data"] = Null], "workspaceId") }

\* records that pass validation with a Date where the schema says object
\* (typeof of a Date is 'object')
DateAsObjectEvents ==
  {[Event(id, WsStr(1), 1, <<"click">>) EXCEPT !["data"] = DateV(1)] : id \in Ids}

CreateInputs == ValidEvents \cup DateAsObjectEvents \cup RejectedEvents

\* the values an update may give to a field; Num(123) is no string
UpdateValues(k) ==
  CASE k = "workspaceId" -> {Str(ws) : ws \in Wss} \cup {Num(123)}
    [] k = "timestamp" -> {DateV(d) : d \in Dates}
    [] k = "type" -> {Str(<<"click">>)}
    [] OTHER -> {Obj, DateV(1)}

UpdateFields == {"workspaceId", "timestamp", "type", "data"}

\* partial records naming at most two fields
UpdateInputs ==
  UNION { {u \in [D -> UNION {UpdateValues(k) : k \in D}] :
             \A k \in D : u[k] \in UpdateValues(k)} :
          D \in {E \in SUBSET UpdateFields : Cardinality(E) <= 2} }

\* the entries a where clause is built from
Conds ==
  {Cond("workspaceId", Str(ws)) : ws \in Wss}
    \cup {Cond("timestamp", DateV(d)) : d \in Dates}
    \cup {Cond("type", Str(t)) : t \in Types}

WhereInputs ==
  {<<>>} \cup {<<c>> : c \in Conds}
    \cup {<<pair[1], pair[2]>> : pair \in {x \in Conds \X Conds : x[1].f # x[2].f}}

Bounds == {Undefined} \cup {DateV(d) : d \in Dates}

Orders ==
  {NoOrder} \cup {[field |-> f, direction |-> dir] :
                    f \in {"timestamp", "workspaceId"}, dir \in {"asc", "desc"}}

Limits == (-1)..MaxLimit

\* where clauses alone; date bounds; sort and limit; all of them on a scan
QueryInputs ==
  {Options(TRUE, w, Undefined, Undefined, -1, NoOrder) : w \in WhereInputs}
    \cup {Options(TRUE, <<Cond("workspaceId", Str(WsStr(1)))>>, a, b, -1, NoOrder) :
            a \in Bounds, b \in Bounds}
    \cup {Options(TRUE, <<Cond("workspaceId", Str(WsStr(1)))>>, Undefined, Undefined, n, o) :
            n \in Limits, o \in Orders}
    \cup {Options(FALSE, <<>>, a, Undefined, n, o) :
            a \in {Undefined, DateV(1)}, n \in Limits,
            o \in {NoOrder, [field |-> "timestamp", direction |-> "desc"]}}

(* ------------------------- sequential callers -------------------------- *)

Procs == {1, 2}

Init ==
  /\ storage = EmptyStorage
  /\ loc = [p \in Procs |-> Idle]
  /\ pre = EmptyStorage
  /\ calls = 0

\* no call is in progress and no result is pending
Quiet == \A p \in Procs : loc[p] = Idle

\* caller p makes the call and awaits its return; pre is the backend at the
\* time of the call
Await(p, call) ==
  /\ Quiet
  /\ LET r == run(TableName, storage, call)
     IN /\ storage' = r.st
        /\ loc' = [loc EXCEPT ![p] = r.l]
  /\ pre' = storage
  /\ UNCHANGED calls

\* caller p has taken the result of its call
Return(p) ==
  /\ loc[p].pc = "done"
  /\ loc[p] # Idle
  /\ loc' = [loc EXCEPT ![p] = Idle]
  /\ pre' = storage
  /\ UNCHANGED <<storage, calls>>

Create(p) == \E d \in CreateInputs : Await(p, Call("create", "c_get", <<>>, d, NoOptions))

Find(p) == \E id \in Ids : Await(p, Call("find", "f_get", id, <<>>, NoOptions))

Update(p) ==
  \E id \in Ids, u \in UpdateInputs :
    Await(p, Call("update", "u_find", id, u, NoOptions))

Delete(p) == \E id \in Ids : Await(p, Call("delete", "d_find", id, <<>>, NoOptions))

Query(p) == \E q \in QueryInputs : Await(p, Call("query", "q_begin", <<>>, <<>>, q))

Count(p) == Await(p, Call("count", "n_list", <<>>, <<>>, NoOptions))

Next ==
  \/ Create(1) \/ Find(1) \/ Update(1) \/ Delete(1) \/ Query(1) \/ Count(1)
  \/ Return(1)

Spec == Init /\ [][Next]_vars

(* ------------------------- concurrent callers -------------------------- *)

\* the calls concurrent callers make: creates and single-field updates of
\* the indexed field workspaceId, deletes, and queries on it
ConcEvents == {Event(id, ws, 1, <<"click">>) : id \in Ids, ws \in Wss}

ConcUpdates == {[k \in {"workspaceId"} |-> Str(ws)] : ws \in Wss}

ConcQueries ==
  {Options(TRUE, <<Cond("workspaceId", Str(ws))>>, Undefined, Undefined, -1, NoOrder) :
     ws \in Wss}

\* caller p issues a call; its backend calls follow one at a time
Begin(p, call) ==
  /\ loc[p] = Idle
  /\ calls < MaxCalls
  /\ calls' = calls + 1
  /\ loc' = [loc EXCEPT ![p] = call]
  /\ UNCHANGED <<storage, pre>>

BeginCreate(p) ==
  \E d \in ConcEvents : Begin(p, Call("create", "c_get", <<>>, d, NoOptions))

BeginUpdate(p) ==
  \E id \in Ids, u \in ConcUpdates :
    Begin(p, Call("update", "u_find", id, u, NoOptions))

BeginDelete(p) ==
  \E id \in Ids : Begin(p, Call("delete", "d_find", id, <<>>, NoOptions))

BeginQuery(p) ==
  \E q \in ConcQueries : Begin(p, Call("query", "q_begin", <<>>, <<>>, q))

\* the backend serves the next call of p's operation
Advance(p) ==
  /\ loc[p].pc # "done"
  /\ LET r == stepOf(TableName, storage, loc[p], FALSE)
     IN /\ storage' = r.st
        /\ loc' = [loc EXCEPT ![p] = r.l]
  /\ UNCHANGED <<pre, calls>>

\* caller p has taken the result of its call
Forget(p) ==
  /\ loc[p].pc = "done"
  /\ loc[p] # Idle
  /\ loc' = [loc EXCEPT ![p] = Idle]
  /\ UNCHANGED <<storage, pre, calls>>

NextConc ==
  \E p \in Procs :
    \/ BeginCreate(p) \/ BeginUpdate(p) \/ BeginDelete(p) \/ BeginQuery(p)
    \/ Advance(p) \/ Forget(p)

SpecConc == Init /\ [][NextConc]_vars

(* ------------------- a query after concurrent writes ------------------- *)

\* caller p queries while no other call is in progress: the backend serves
\* the calls of the query with none of another caller in between
QuietQuery(p) ==
  /\ Quiet
  /\ calls < MaxCalls
  /\ calls' = calls + 1
  /\ \E q \in ConcQueries :
       LET r == run(TableName, storage, Call("query", "q_begin", <<>>, <<>>, q))
       IN /\ storage' = r.st
          /\ loc' = [loc EXCEPT ![p] = r.l]
  /\ UNCHANGED pre

NextStale ==
  \E p \in Procs :
    \/ BeginCreate(p) \/ BeginUpdate(p) \/ BeginDelete(p)
    \/ Advance(p) \/ Forget(p) \/ QuietQuery(p)

SpecStale == Init /\ [][NextStale]_vars

(* ---------------- a record type with two date fields ------------------- *)

\* a subclass of DOModel whose schema declares two fields of type date
AuditSchema ==
  << [name |-> "id", type |-> "string"],
     [name |-> "createdAt", type |-> "date"],
     [name |-> "updatedAt", type |-> "date"] >>

\* its records as find returns them: both date fields hold a valid Date
AuditRecords ==
  {[id |-> Str(IdStr(1)), createdAt |-> DateV(c), updatedAt |-> DateV(u)] :
     c \in 0..(MaxTs + 1), u \in 0..(MaxTs + 1)}

\* the bounds of the queries on that type
AuditBounds == {Undefined} \cup {DateV(d) : d \in 0..(MaxTs + 1)}

\* the date range step of query on one loaded record of that type
FilterAudit(p) ==
  /\ Quiet
  /\ \E r \in AuditRecords, a \in AuditBounds, b \in AuditBounds :
       LET q == Options(FALSE, <<>>, a, b, -1, NoOrder)
           filtered == IF a.t = "date" \/ b.t = "date"
                         THEN IF dateRangeKeeps(AuditSchema, r, a, b)
                                THEN <<r>> ELSE <<>>
                         ELSE <<r>>
       IN loc' = [loc EXCEPT ![p] =
                    [Call("query", "done", <<>>, <<>>, q) EXCEPT
                       !.status = "ok", !.recs = <<r>>, !.out = filtered]]
  /\ pre' = storage
  /\ UNCHANGED <<storage, calls>>

NextAudit == FilterAudit(1) \/ Return(1)

SpecAudit == Init /\ [][NextAudit]_vars

(* ------------------- updates that name the id field ------------------- *)

\* partial records that give the id field a value (Partial<InferSchemaType<S>>
\* admits it), alone or with a workspaceId
IdUpdates ==
  {[k \in {"id"} |-> Str(i)] : i \in Ids}
    \cup {[k \in {"id", "workspaceId"} |-> IF k = "id" THEN Str(i) ELSE Str(ws)] :
            i \in Ids, ws \in Wss}

UpdateId(p) ==
  \E id \in Ids, u \in IdUpdates :
    Await(p, Call("update", "u_find", id, u, NoOptions))

NextIds == Create(1) \/ UpdateId(1) \/ Delete(1) \/ Return(1)

SpecIds == Init /\ [][NextIds]_vars

(* --------------------------- query builder ---------------------------- *)

\* one chained call on the builder: m is the method; its argument is date
\* (after, before), count (limit) or order (orderBy)
Chained(m, d, n, o) ==
  [m |-> m, date |-> d, count |-> n, order |-> o]

\* QueryBuilder.after / before / limit / orderBy: each assigns its own key
\* of this.options
chainCall(options, c) ==
  CASE c.m = "after" -> [options EXCEPT !.after = c.date]
    [] c.m = "before" -> [options EXCEPT !.before = c.date]
    [] c.m = "limit" -> [options EXCEPT !.limit = c.count]
    [] OTHER -> [options EXCEPT !.orderBy = c.order]

\* the options of the builder after the chained calls, in their order
RECURSIVE chainCalls(_, _)
chainCalls(options, chain) ==
  IF chain = <<>> THEN options
  ELSE chainCalls(chainCall(options, Head(chain)), Tail(chain))

\* DOModel.where: new QueryBuilder(this, { where: conditions })
whereBuilder(conditions) ==
  Options(TRUE, conditions, Undefined, Undefined, -1, NoOrder)

\* the calls chained in the executions: one bound of each kind, every limit
\* from 0, both directions of a sort on timestamp
ChainedCalls ==
  {Chained("after", DateV(1), -1, NoOrder),
   Chained("before", DateV(MaxTs), -1, NoOrder)}
    \cup {Chained("limit", Undefined, n, NoOrder) : n \in 0..MaxLimit}
    \cup {Chained("orderBy", Undefined, -1,
                   [field |-> "timestamp", direction |-> dir]) :
            dir \in {"asc", "desc"}}

\* chains that call each method at most once, in any order
Chains ==
  {c \in UNION {[1..n -> ChainedCalls] : n \in 0..4} :
     \A i \in DOMAIN c, j \in DOMAIN c : i # j => c[i].m # c[j].m}

\* model.where(conditions).<chain>.execute()
Execute(p) ==
  \E ws \in Wss, c \in Chains :
    Await(p, Call("query", "q_begin", <<>>, <<>>,
                  chainCalls(whereBuilder(<<Cond("workspaceId", Str(ws))>>), c)))

NextChain == Create(1) \/ Execute(1) \/ Return(1)

SpecChain == Init /\ [][NextChain]_vars

(* ---------------------- a backend that can fail ------------------------ *)

\* the returns the call can reach when one of its backend calls may fail:
\* the call fails at its next backend call, or that call is served and the
\* same holds for the rest
RECURSIVE outcomes(_, _, _)
outcomes(tn, S, l) ==
  IF l.pc = "done" THEN {Step(S, l)}
  ELSE LET r == stepOf(tn, S, l, FALSE)
       IN {stepOf(tn, S, l, TRUE)} \cup outcomes(tn, r.st, r.l)

\* caller p makes the call and awaits its return or its error
AwaitOutcome(p, call) ==
  /\ Quiet
  /\ \E r \in outcomes(TableName, storage, call) :
       /\ storage' = r.st
       /\ loc' = [loc EXCEPT ![p] = r.l]
  /\ pre' = storage
  /\ UNCHANGED calls

TryCreate(p) ==
  \E d \in ValidEvents : AwaitOutcome(p, Call("create", "c_get", <<>>, d, NoOptions))

TryUpdate(p) ==
  \E id \in Ids, u \in UpdateInputs :
    AwaitOutcome(p, Call("update", "u_find", id, u, NoOptions))

TryDelete(p) ==
  \E id \in Ids : AwaitOutcome(p, Call("delete", "d_find", id, <<>>, NoOptions))

NextFail == TryCreate(1) \/ TryUpdate(1) \/ TryDelete(1) \/ Return(1)

SpecFail == Init /\ [][NextFail]_vars

(* -------------------- two tables on one backend ------------------------ *)

\* a second model of the same record type is constructed on the same
\* backend with the table name 'index'
OtherTable == <<"index">>

\* caller 1 uses the table 'events', caller 2 the table 'index'
TableOf(p) == IF p = 1 THEN TableName ELSE OtherTable

\* caller p makes the call on its own table and awaits its return
AwaitOn(p, call) ==
  /\ Quiet
  /\ LET r == run(TableOf(p), storage, call)
     IN /\ storage' = r.st
        /\ loc' = [loc EXCEPT ![p] = r.l]
  /\ pre' = storage
  /\ UNCHANGED calls

CreateOn(p) ==
  \E d \in ConcEvents : AwaitOn(p, Call("create", "c_get", <<>>, d, NoOptions))

UpdateOn(p) ==
  \E id \in Ids, u \in ConcUpdates :
    AwaitOn(p, Call("update", "u_find", id, u, NoOptions))

DeleteOn(p) ==
  \E id \in Ids : AwaitOn(p, Call("delete", "d_find", id, <<>>, NoOptions))

CountOn(p) == AwaitOn(p, Call("count", "n_list", <<>>, <<>>, NoOptions))

NextTables ==
  \E p \in Procs :
    CreateOn(p) \/ UpdateOn(p) \/ DeleteOn(p) \/ CountOn(p) \/ Return(p)

SpecTables == Init /\ [][NextTables]_vars

(* ============================ properties =============================== *)

RecordPrefix == TableName \o <<":">>

\* the identifiers that have a stored record in backend S
StoredIds(S) ==
  {stripPrefix(k, RecordPrefix) : k \in {x \in DOMAIN S : startsWith(x, RecordPrefix)}}

\* the record stored for id, as find returns it
StoredRecord(S, id) == find(TableName, S, id).rec

\* the index keys of field f that list id
EntriesListing(S, f, id) ==
  {k \in DOMAIN S : startsWith(k, getIndexPrefix(TableName, f)) /\ includes(S[k].ids, id)}

\* the index keys (of any field) that list id
ListedAnywhere(S, id) == \E k \in DOMAIN S : S[k].kind = "idx" /\ includes(S[k].ids, id)

\* the record has every schema field with a value of the declared kind
Conforms(data) ==
  \A i \in 1..Len(Schema) :
    /\ Schema[i].name \in DOMAIN data
    /\ validateField(data[Schema[i].name], Schema[i].type)

\* the record satisfies every condition, values compared by value (two
\* timestamps are equal when they are the same instant)
Satisfies(record, where) ==
  \A j \in 1..Len(where) : Prop(record, where[j].f) = where[j].v

\* the elements of a sequence
Range(seq) == {seq[i] : i \in 1..Len(seq)}

\* previous with the fields of partial replaced
Overlay(previous, partial) ==
  [k \in (DOMAIN previous) \cup (DOMAIN partial) |->
     IF k \in DOMAIN partial THEN partial[k] ELSE previous[k]]

\* caller 1 holds the result of a call of this operation
Returned(op) == loc[1].op = op /\ loc[1].pc = "done"

Succeeded(op) == Returned(op) /\ loc[1].status = "ok"

\* C1: in a sequential execution, after every successful create, update or
\* delete, every stored record's identifier is listed, for every indexed
\* field, in the index entry of the record's current value and in no other
\* entry of that field.
C1_IndexMatchesRecords ==
  (Succeeded("create") \/ Succeeded("update") \/ Succeeded("delete")) =>
    \A id \in StoredIds(storage) :
      \A i \in 1..Len(Indexes) :
        EntriesListing(storage, Indexes[i], id) =
          {getIndexKey(TableName, Indexes[i], StoredRecord(storage, id)[Indexes[i]])}

\* an update has moved a record between index entries while another record
\* is stored
C1_Witness ==
  /\ Succeeded("update")
  /\ loc[1].changed
  /\ loc[1].existing["workspaceId"] # loc[1].updated["workspaceId"]
  /\ Cardinality(StoredIds(storage)) = 2

\* C2: in a sequential execution, a query whose first condition is an
\* equality on an indexed text field (no date bound, no limit) returns
\* exactly the stored records that satisfy every condition of the where
\* clause, each once.
C2_IndexedQueryExact ==
  ( /\ Succeeded("query")
    /\ usesIndex(loc[1].q)
    /\ schemaType(loc[1].q.where[1].f) \in {"string", "number", "boolean"}
    /\ loc[1].q.after = Undefined /\ loc[1].q.before = Undefined
    /\ loc[1].q.limit = -1 ) =>
    /\ Range(loc[1].out) =
         {r \in {StoredRecord(storage, id) : id \in StoredIds(storage)} :
            Satisfies(r, loc[1].q.where)}
    /\ \A i, j \in 1..Len(loc[1].out) : loc[1].out[i] = loc[1].out[j] => i = j

\* C3: every record a query returns satisfies every condition of the where
\* clause, also when the index entry used for the candidates is stale.
C3_ResultsSatisfyWhere ==
  \A p \in Procs :
    (loc[p].op = "query" /\ loc[p].status = "ok") =>
      \A i \in 1..Len(loc[p].out) : Satisfies(loc[p].out[i], loc[p].q.where)

\* a query has loaded, through a stale index entry, a record that does not
\* have the queried value
C3_Witness ==
  \E p \in Procs :
    /\ loc[p].op = "query" /\ loc[p].status = "ok"
    /\ \E i \in 1..Len(loc[p].recs) :
         ~Satisfies(loc[p].recs[i], <<loc[p].q.where[1]>>)

\* C4: in a sequential execution, after delete(id) returns true, find(id)
\* returns absent and no index entry lists id.
C4_DeleteRemovesEverything ==
  (Succeeded("delete") /\ loc[1].retb) =>
    /\ ~find(TableName, storage, loc[1].id).found
    /\ ~ListedAnywhere(storage, loc[1].id)

\* a delete has returned true while another record stays stored
C4_Witness ==
  /\ Succeeded("delete") /\ loc[1].retb
  /\ StoredIds(storage) # {}
  /\ ListedAnywhere(pre, loc[1].id)

\* the identifier a create call names
createId(data) == IF "id" \in DOMAIN data THEN String(data["id"]) ELSE <<>>

\* C5 as stated: create called with an identifier that already has a stored
\* record fails with an 'already exists' error and leaves the backend
\* unchanged.
C5_Original ==
  (Returned("create") /\ createId(loc[1].data) \in StoredIds(pre)) =>
    /\ loc[1].status = "error"
    /\ loc[1].err.kind = "AlreadyExists"
    /\ storage = pre

\* C5 amended: create called with a record that passes validation and whose
\* identifier already has a stored record fails with an 'already exists'
\* error, and the failed call leaves the stored record and every index
\* entry unchanged.
C5_Amended ==
  ( /\ Returned("create")
    /\ Conforms(loc[1].data)
    /\ createId(loc[1].data) \in StoredIds(pre) ) =>
    /\ loc[1].status = "error"
    /\ loc[1].err.kind = "AlreadyExists"
    /\ loc[1].nw = 0
    /\ storage = pre

\* a valid record was given to create under a stored identifier whose
\* stored record differs from it
C5_Witness ==
  /\ Returned("create")
  /\ Conforms(loc[1].data)
  /\ createId(loc[1].data) \in StoredIds(pre)
  /\ StoredRecord(pre, createId(loc[1].data)) # loc[1].data

\* C6: for every record r that passes validation and whose identifier is
\* not yet stored, create(r) followed by find(r.id) returns a record equal
\* to r field for field.
C6_CreateThenFind ==
  ( /\ Returned("create")
    /\ Conforms(loc[1].data)
    /\ ~idMissing(loc[1].data)
    /\ createId(loc[1].data) \notin StoredIds(pre) ) =>
    /\ loc[1].status = "ok"
    /\ find(TableName, storage, createId(loc[1].data)).found
    /\ find(TableName, storage, createId(loc[1].data)).rec = loc[1].data

\* C7: after a successful update(id, partial), find(id) returns the previous
\* record with each field named in partial replaced by partial's value and
\* every other field unchanged, and update returns that same merged record.
C7_UpdateMerges ==
  Succeeded("update") =>
    /\ find(TableName, storage, loc[1].id).found
    /\ find(TableName, storage, loc[1].id).rec =
         Overlay(StoredRecord(pre, loc[1].id), loc[1].data)
    /\ loc[1].ret = Overlay(StoredRecord(pre, loc[1].id), loc[1].data)

\* C8: update validates the entire merged record before any backend write:
\* when the merged record violates the schema, update fails and the backend
\* is exactly as before the call.
C8_InvalidUpdateWritesNothing ==
  ( /\ Returned("update")
    /\ loc[1].id \in StoredIds(pre)
    /\ ~Conforms(Overlay(StoredRecord(pre, loc[1].id), loc[1].data)) ) =>
    /\ loc[1].status = "error"
    /\ loc[1].err.kind \in {"MissingField", "TypeMismatch"}
    /\ loc[1].nw = 0
    /\ storage = pre

\* an update was rejected for a field the partial record does not name
C8_Witness ==
  /\ Returned("update")
  /\ loc[1].id \in StoredIds(pre)
  /\ loc[1].status = "error"
  /\ loc[1].err.kind = "TypeMismatch"
  /\ loc[1].err.field \notin DOMAIN loc[1].data
  /\ DOMAIN loc[1].data # {}

\* C9: update(id, partial) on an identifier that has no stored record fails
\* with a not-found error and issues no put or delete; update never creates
\* a record.
C9_UpdateAbsentFails ==
  (Returned("update") /\ loc[1].id \notin StoredIds(pre)) =>
    /\ loc[1].status = "error"
    /\ loc[1].err.kind = "NotFound"
    /\ loc[1].nw = 0
    /\ storage = pre

\* an update of an absent identifier returned while other records are stored
C9_Witness ==
  /\ Returned("update")
  /\ loc[1].id \notin StoredIds(pre)
  /\ StoredIds(pre) # {}
  /\ DOMAIN loc[1].data # {}

\* C10: delete(id) on an identifier that has no stored record returns false,
\* raises no error and issues no backend write; delete(id) on a stored
\* identifier returns true.
C10_DeleteResult ==
  Returned("delete") =>
    /\ loc[1].status = "ok"
    /\ loc[1].retb = (loc[1].id \in StoredIds(pre))
    /\ (loc[1].id \notin StoredIds(pre)) => (loc[1].nw = 0 /\ storage = pre)

\* a delete of an absent identifier returned while other records are stored
C10_Witness ==
  /\ Returned("delete")
  /\ loc[1].id \notin StoredIds(pre)
  /\ StoredIds(pre) # {}

\* the stored records of the table, as find returns them
StoredRecords(S) == {StoredRecord(S, id) : id \in StoredIds(S)}

\* the query has neither date bound
NoBounds(q) == q.after = Undefined /\ q.before = Undefined

\* C11: a query built with an empty conditions mapping, no date bound and
\* no limit returns every stored record of the record type.
C11_EmptyWhereReturnsAll ==
  ( /\ Succeeded("query")
    /\ loc[1].q.hasWhere /\ loc[1].q.where = <<>>
    /\ NoBounds(loc[1].q)
    /\ loc[1].q.limit = -1 ) =>
    Range(loc[1].out) = StoredRecords(storage)

C13_UnindexedWhereScans ==
  ( /\ Succeeded("query")
    /\ loc[1].q.hasWhere /\ Len(loc[1].q.where) > 0
    /\ \A i \in 1..Len(loc[1].q.where) : loc[1].q.where[i].f \notin Range(Indexes)
    /\ NoBounds(loc[1].q)
    /\ loc[1].q.limit = -1 ) =>
    Range(loc[1].out) = {r \in StoredRecords(storage) : Satisfies(r, loc[1].q.where)}

\* the conditions of the query (none when it has no where clause)
Conditions(q) == IF q.hasWhere THEN q.where ELSE <<>>

\* the record's timestamp is strictly after the after-bound and strictly
\* before the before-bound, for each bound that is set
StrictlyInside(record, after, before) ==
  /\ after # Undefined => record["timestamp"].n > after.n
  /\ before # Undefined => record["timestamp"].n < before.n

\* the record passes the in-memory re-check of the conditions: field for
\* field, its value is strictly equal (===) to the condition's value
Kept(record, where) ==
  \A j \in 1..Len(where) : StrictEq(Prop(record, where[j].f), where[j].v)

\* the filtered records of the query: its candidates that pass the re-check
\* of its conditions and lie strictly inside its date bounds
Matches(l) ==
  {r \in Range(l.recs) :
     /\ Kept(r, Conditions(l.q))
     /\ StrictlyInside(r, l.q.after, l.q.before)}

\* C14: both date bounds are exclusive: every record returned by a query
\* with after(a) has its timestamp strictly greater than a and with
\* before(b) strictly less than b, and (no limit) every candidate that
\* satisfies the conditions and lies strictly inside the bounds is returned.
C14_DateBoundsExclusive ==
  (Succeeded("query") /\ ~NoBounds(loc[1].q)) =>
    /\ \A i \in 1..Len(loc[1].out) :
         StrictlyInside(loc[1].out[i], loc[1].q.after, loc[1].q.before)
    /\ loc[1].q.limit = -1 =>
         Range(loc[1].out) = Matches(loc[1])

\* a query with an after-bound has returned a record and has left out a
\* candidate whose timestamp equals the bound
C14_Witness ==
  /\ Succeeded("query")
  /\ loc[1].q.after # Undefined
  /\ loc[1].out # <<>>
  /\ \E r \in Range(loc[1].recs) :
       /\ Kept(r, Conditions(loc[1].q))
       /\ r["timestamp"] = loc[1].q.after
       /\ r \notin Range(loc[1].out)

\* x comes before y in the natural order of the field's values:
\* chronological for timestamps, lexicographic for text
Precedes(x, y) == IF x.t = "date" THEN x.n < y.n ELSE StrLess(x.s, y.s)

\* C15: with orderBy(field, 'asc') the returned sequence is non-decreasing
\* in field, with 'desc' non-increasing, and (no limit) it is a permutation
\* of the filtered records: none dropped, none duplicated.
C15_OrderBySorts ==
  (Succeeded("query") /\ loc[1].q.orderBy # NoOrder) =>
    LET out == loc[1].out
        f == loc[1].q.orderBy.field
    IN /\ \A i \in 1..(Len(out) - 1) :
            IF loc[1].q.orderBy.direction = "asc"
              THEN ~Precedes(out[i + 1][f], out[i][f])
              ELSE ~Precedes(out[i][f], out[i + 1][f])
       /\ loc[1].q.limit = -1 =>
            /\ Range(out) = Matches(loc[1])
            /\ Len(out) = Cardinality(Matches(loc[1]))

\* a descending sort has put a later candidate before an earlier one
C15_Witness ==
  /\ Succeeded("query")
  /\ loc[1].q.orderBy # NoOrder
  /\ loc[1].q.orderBy.direction = "desc"
  /\ Len(loc[1].out) = 2 /\ Len(loc[1].recs) = 2
  /\ loc[1].out[1] = loc[1].recs[2]
  /\ Precedes(loc[1].out[2][loc[1].q.orderBy.field],
              loc[1].out[1][loc[1].q.orderBy.field])

\* no record left out of the result comes, in the requested order, before a
\* record of the result
FirstOfSorted(l) ==
  l.q.orderBy # NoOrder =>
    \A r \in Matches(l) \ Range(l.out) : \A i \in 1..Len(l.out) :
      IF l.q.orderBy.direction = "asc"
        THEN ~Precedes(r[l.q.orderBy.field], l.out[i][l.q.orderBy.field])
        ELSE ~Precedes(l.out[i][l.q.orderBy.field], r[l.q.orderBy.field])

\* C16: with limit(n), for every integer n >= 0, the result is the first n
\* records of the filtered and sorted sequence (all of it when it has fewer
\* than n records), so its length is min(n, number of matches); without a
\* limit the full filtered and sorted sequence is returned.
C16_LimitTruncates ==
  Succeeded("query") =>
    LET n == loc[1].q.limit
        matches == Cardinality(Matches(loc[1]))
    IN /\ Range(loc[1].out) \subseteq Matches(loc[1])
       /\ FirstOfSorted(loc[1])
       /\ Len(loc[1].out) = IF n >= 0 /\ n < matches THEN n ELSE matches

\* the identifiers find returns a record for: created and not yet deleted
Live(S) == {id \in Ids : find(TableName, S, id).found}

\* C17: in a sequential execution the live records are those created and
\* not yet deleted (a successful create adds its identifier, a delete that
\* returns true removes its identifier, every other call, update included,
\* leaves them as they are); count() returns their number and all() returns
\* exactly them, each once.
C17_CountAndAll ==
  /\ Succeeded("create") =>
       /\ loc[1].id \notin Live(pre)
       /\ Live(storage) = Live(pre) \cup {loc[1].id}
  /\ (Succeeded("delete") /\ loc[1].retb) =>
       /\ loc[1].id \in Live(pre)
       /\ Live(storage) = Live(pre) \ {loc[1].id}
  /\ ~(Succeeded("create") \/ (Succeeded("delete") /\ loc[1].retb)) =>
       Live(storage) = Live(pre)
  /\ Returned("count") =>
       /\ loc[1].status = "ok"
       /\ loc[1].n = Cardinality(Live(storage))
  /\ (Returned("query") /\ loc[1].q = NoOptions) =>
       /\ loc[1].status = "ok"
       /\ Range(loc[1].out) = {StoredRecord(storage, id) : id \in Live(storage)}
       /\ Len(loc[1].out) = Cardinality(Live(storage))

\* count() has returned 1 while index entries are stored beside the record
C17_Witness ==
  /\ Returned("count")
  /\ loc[1].n = 1
  /\ \E k \in DOMAIN storage : storage[k].kind = "idx"

\* the index key the running updateIndexes of call l is working on
CurrentIndexKey(l) ==
  getIndexKey(TableName, Indexes[l.i], Prop(ixData(l), Indexes[l.i]))

\* C18: the read-modify-write of an index entry is not atomic: the put of
\* updateIndexes writes the array read by its earlier get plus its own
\* identifier, so every other identifier that another operation added to
\* the entry in between is no longer listed after the put.
C18_PutDropsConcurrentAdditions ==
  [][\A p \in Procs :
       (loc[p].pc = "ix_put" /\ loc'[p] # loc[p]) =>
         /\ Range(idsOf(Get(storage', CurrentIndexKey(loc[p])))) =
              Range(loc[p].ids) \cup {loc[p].id}
         /\ \A x \in Range(idsOf(Get(storage, CurrentIndexKey(loc[p])))) :
              (x \notin Range(loc[p].ids) /\ x # loc[p].id) =>
                ~includes(idsOf(Get(storage', CurrentIndexKey(loc[p]))), x)]_vars

\* two concurrent operations on different identifiers have both completed
\* successfully, both records are stored with the same workspaceId, and the
\* entry of that value lists one identifier and not the other
C18_Witness ==
  \E p, o \in Procs :
    /\ p # o
    /\ loc[p].pc = "done" /\ loc[p].status = "ok"
    /\ loc[o].pc = "done" /\ loc[o].status = "ok"
    /\ loc[p].op \in {"create", "update"} /\ loc[o].op \in {"create", "update"}
    /\ loc[p].id # loc[o].id
    /\ find(TableName, storage, loc[p].id).found
    /\ find(TableName, storage, loc[o].id).found
    /\ StoredRecord(storage, loc[p].id)["workspaceId"] =
         StoredRecord(storage, loc[o].id)["workspaceId"]
    /\ LET entry == idsOf(Get(storage, getIndexKey(TableName, "workspaceId",
                            StoredRecord(storage, loc[p].id)["workspaceId"])))
       IN includes(entry, loc[o].id) /\ ~includes(entry, loc[p].id)

\* the indexed fields for whose current value the index entry does not list
\* the identifier of the record
Unlisted(S, id, record) ==
  {i \in 1..Len(Indexes) :
     ~includes(idsOf(Get(S, getIndexKey(TableName, Indexes[i], record[Indexes[i]]))), id)}

\* C19: nothing is rolled back on a backend failure: when create fails
\* after its record put succeeded, the error the caller gets is the
\* backend's, the record stays stored (find(id) returns it) and it is
\* missing from at least one index entry of its current values.
C19_NoRollback ==
  (Returned("create") /\ loc[1].status = "error" /\ loc[1].nw >= 1) =>
    /\ loc[1].err = BackendError
    /\ find(TableName, storage, loc[1].id).found
    /\ StoredRecord(storage, loc[1].id) = loc[1].data
    /\ Unlisted(storage, loc[1].id, StoredRecord(storage, loc[1].id)) # {}

\* create has failed after adding the record to its first index entry: the
\* record is stored and listed under its workspaceId, not under its timestamp
C19_Witness ==
  /\ Returned("create") /\ loc[1].status = "error" /\ loc[1].nw >= 1
  /\ find(TableName, storage, loc[1].id).found
  /\ Unlisted(storage, loc[1].id, loc[1].data) = {2}
  /\ StoredIds(pre) # {}

\* what the read operations of the model on table tn return in backend S:
\* find for every identifier, count, all, and a query on each workspaceId
Observations(tn, S) ==
  [find |-> [id \in Ids |-> find(tn, S, id)],
   count |-> run(tn, S, Call("count", "n_list", <<>>, <<>>, NoOptions)).l.n,
   all |-> run(tn, S, Call("query", "q_begin", <<>>, <<>>, NoOptions)).l.out,
   query |-> [q \in ConcQueries |->
                run(tn, S, Call("query", "q_begin", <<>>, <<>>, q)).l.out]]

\* C20: for two record types with distinct table names sharing one backend
\* (here 'events' and 'index'), no operation on one changes the result of
\* find, count, all or query on the other.
C20_TablesIsolated ==
  \A p \in Procs :
    (loc[p].pc = "done" /\ loc[p] # Idle) =>
      \A o \in Procs \ {p} :
        Observations(TableOf(o), storage) = Observations(TableOf(o), pre)

\* C21: for every record r that passes validation, deserialize(serialize(r))
\* equals r: timestamps come back as the same instant and every other field
\* passes through unchanged. Stated of the records create and update encode.
C21_CodecRoundTrip ==
  /\ (Returned("create") /\ Conforms(loc[1].data)) =>
       deserialize(serialize(loc[1].data)) = loc[1].data
  /\ Succeeded("update") =>
       deserialize(serialize(loc[1].updated)) = loc[1].updated

\* the positions in the schema of the fields absent from the record
Absent(data) == {i \in 1..Len(Schema) : Schema[i].name \notin DOMAIN data}

\* the least element of a non-empty set of positions
First(positions) == CHOOSE i \in positions : \A j \in positions : i <= j

\* the positions before position i whose field is present with a value the
\* kind check of its declared kind rejects
RejectedBefore(data, i) ==
  {j \in 1..(i - 1) : /\ Schema[j].name \in DOMAIN data
                      /\ ~validateField(data[Schema[j].name], Schema[j].type)}

\* C23 as stated: validation fails with a missing-field error whenever any
\* schema-declared field is absent from the record, whatever the values of
\* the other fields.
C23_Original ==
  (Returned("create") /\ Absent(loc[1].data) # {}) =>
    /\ loc[1].status = "error"
    /\ loc[1].err.kind = "MissingField"

\* C23 amended: validation fails whenever any schema-declared field is
\* absent; the error is a missing-field error naming the first absent field
\* in schema order, unless a field declared before it is present with a value
\* that fails its kind check, and then it is the type mismatch of the first
\* such field.
C23_Amended ==
  (Returned("create") /\ Absent(loc[1].data) # {}) =>
    LET i == First(Absent(loc[1].data))
        bad == RejectedBefore(loc[1].data, i)
    IN /\ loc[1].status = "error"
       /\ loc[1].nw = 0
       /\ loc[1].err = IF bad = {} THEN Err("MissingField", Schema[i].name)
                       ELSE Err("TypeMismatch", Schema[First(bad)].name)

\* create was given a record with an absent field and, declared before it,
\* a field of the wrong kind
C23_Witness ==
  /\ Returned("create")
  /\ Absent(loc[1].data) # {}
  /\ RejectedBefore(loc[1].data, First(Absent(loc[1].data))) # {}
  /\ loc[1].err.kind = "TypeMismatch"

\* the value is of the declared kind: text, a number, a boolean, a valid
\* timestamp, a plain object, an array
OfKind(value, kind) ==
  CASE kind = "string" -> value.t = "string"
    [] kind = "number" -> value.t = "number" /\ ~isNaN(value)
    [] kind = "boolean" -> value.t = "boolean"
    [] kind = "date" -> value.t = "date" /\ ~isNaN(value)
    [] kind = "object" -> value.t = "object"
    [] kind = "array" -> value.t = "array"
    [] OTHER -> FALSE

\* the positions of the fields present with a value not of the declared kind
Mismatched(data) ==
  {i \in 1..Len(Schema) : /\ Schema[i].name \in DOMAIN data
                          /\ ~OfKind(data[Schema[i].name], Schema[i].type)}

\* C24: when every schema field is present and the value of one of them is
\* not of its declared kind, validation fails with a type-mismatch error
\* naming such a field; and a record rejected by validation in create causes
\* no backend write.
C24_TypeMismatchRejected ==
  /\ (Returned("create") /\ Absent(loc[1].data) = {} /\ Mismatched(loc[1].data) # {}) =>
       /\ loc[1].status = "error"
       /\ loc[1].err.kind = "TypeMismatch"
       /\ \E i \in Mismatched(loc[1].data) : loc[1].err.field = Schema[i].name
  /\ (Returned("create") /\ loc[1].err.kind \in {"MissingField", "TypeMismatch"}) =>
       /\ loc[1].nw = 0
       /\ storage = pre

\* the indexed fields whose value the update changes, compared by value (two
\* timestamps are equal when they are the same instant)
ChangedIndexes(previous, partial) ==
  {i \in 1..Len(Indexes) :
     Overlay(previous, partial)[Indexes[i]] # previous[Indexes[i]]}

\* C25: update writes index entries only for the indexed fields whose value
\* changed, compared by value: a successful update issues the record put and,
\* for each changed indexed field, one write removing the identifier from
\* the old entry and one put adding it to the new entry; an update that
\* changes no indexed field issues exactly one backend write.
C25_OnlyChangedIndexesWritten ==
  Succeeded("update") =>
    loc[1].nw =
      1 + 2 * Cardinality(ChangedIndexes(StoredRecord(pre, loc[1].id), loc[1].data))

\* C26: in every reachable backend state, intermediate states of interleaved
\* operations included, no index key is stored with an empty identifier
\* list.
C26_NoEmptyIndexEntry ==
  \A k \in DOMAIN storage : storage[k].kind = "idx" => storage[k].ids # <<>>

\* a delete has just removed the last identifier of the workspaceId entry
\* of its record, and the key of that entry is gone
C26_Witness ==
  \E p \in Procs :
    /\ loc[p].op = "delete"
    /\ loc[p].pc = "rm_get" /\ loc[p].i = 2
    /\ loc[p].ids = <<>>
    /\ loc[p].nw = 1
    /\ getIndexKey(TableName, Indexes[1], loc[p].existing[Indexes[1]]) \notin DOMAIN storage

\* the index key k is the entry of the current value of one of the indexed
\* fields of the record stored for id
EntryOfCurrentValue(S, k, id) ==
  /\ find(TableName, S, id).found
  /\ \E i \in 1..Len(Indexes) :
       k = getIndexKey(TableName, Indexes[i], StoredRecord(S, id)[Indexes[i]])

\* C27: without concurrency, at every backend state a call can stop in
\* (its backend calls may fail partway through create, update or delete),
\* every identifier listed in an index entry has a stored record whose
\* current value of the field renders to the value of the entry: no
\* dangling and no stale index entry.
C27_NoDanglingOrStaleEntry ==
  \A k \in DOMAIN storage :
    storage[k].kind = "idx" =>
      \A id \in Range(storage[k].ids) : EntryOfCurrentValue(storage, k, id)

\* an update has failed between its record put and the end of its index
\* update: the record has the new workspaceId and is listed in no entry of
\* workspaceId, while another record is indexed
C27_Witness ==
  /\ Returned("update") /\ loc[1].status = "error" /\ loc[1].nw >= 1
  /\ find(TableName, storage, loc[1].id).found
  /\ StoredRecord(storage, loc[1].id)["workspaceId"] # loc[1].existing["workspaceId"]
  /\ EntriesListing(storage, "workspaceId", loc[1].id) = {}
  /\ \E k \in DOMAIN storage : storage[k].kind = "idx"


\* C28: a successful query whose only condition is an equality on the
\* indexed timestamp field returns exactly the stored records whose
\* timestamp is the queried instant: the lookup by ISO string and the
\* re-check of the condition in memory agree.
C28_TimestampEqualityMatches ==
  ( /\ Succeeded("query")
    /\ loc[1].q.hasWhere /\ Len(loc[1].q.where) = 1
    /\ loc[1].q.where[1].f = "timestamp"
    /\ NoBounds(loc[1].q)
    /\ loc[1].q.limit = -1 ) =>
    Range(loc[1].out) =
      {r \in StoredRecords(storage) : r["timestamp"] = loc[1].q.where[1].v}

\* the conditions in the opposite insertion order
Reversed(where) == [i \in 1..Len(where) |-> where[Len(where) + 1 - i]]

\* the records the query q returns on the backend S
ResultOf(S, q) == Range(run(TableName, S, Call("query", "q_begin", <<>>, <<>>, q)).l.out)

\* C29: a successful query with conditions on two fields, at least one of
\* them indexed, returns the same set of records as the query with the two
\* conditions listed in the opposite order.
C29_ConditionOrderIrrelevant ==
  ( /\ Succeeded("query")
    /\ loc[1].q.hasWhere /\ Len(loc[1].q.where) = 2
    /\ \E i \in 1..2 : loc[1].q.where[i].f \in Range(Indexes)
    /\ NoBounds(loc[1].q)
    /\ loc[1].q.limit = -1 ) =>
    Range(loc[1].out) =
      ResultOf(storage, [loc[1].q EXCEPT !.where = Reversed(loc[1].q.where)])

\* the identifiers the index entry of the query's first condition lists
ListedFor(S, q) == idsOf(Get(S, getIndexKey(TableName, q.where[1].f, q.where[1].v)))

\* the identifiers of ids with no stored record
Missing(S, ids) == {id \in Range(ids) : ~find(TableName, S, id).found}

\* C30: a query on an indexed field that runs with no other call in
\* progress, on a backend whose index entry may list identifiers with no
\* stored record, returns without an error, leaves every key of the backend
\* (the index entry included) as it was, and returns exactly the records of
\* the listed identifiers that are stored and satisfy the conditions.
C30_QuerySkipsMissing ==
  [][\A p \in Procs :
       (Quiet /\ loc'[p].op = "query" /\ loc'[p].pc = "done") =>
         LET q == loc'[p].q
             listed == ListedFor(storage, q)
         IN /\ loc'[p].status = "ok"
            /\ storage' = storage
            /\ Range(loc'[p].out) =
                 {r \in {StoredRecord(storage, id) :
                           id \in Range(listed) \ Missing(storage, listed)} :
                    Satisfies(r, q.where)}]_vars

\* a query has returned a record although the index entry it read lists an
\* identifier with no stored record, and no other call is in progress
C30_Witness ==
  \E p \in Procs :
    /\ loc[p].op = "query" /\ loc[p].pc = "done" /\ loc[p].status = "ok"
    /\ \A o \in Procs \ {p} : loc[o] = Idle
    /\ loc[p].ids = ListedFor(storage, loc[p].q)
    /\ Missing(storage, loc[p].ids) # {}
    /\ loc[p].out # <<>>
    /\ Range(loc[p].out) \subseteq StoredRecords(storage)

\* the identifier is listed in the index entry of each indexed value of data
ListedEverywhere(S, id, data) ==
  \A i \in 1..Len(Indexes) :
    includes(idsOf(Get(S, getIndexKey(TableName, Indexes[i], Prop(data, Indexes[i])))), id)

\* updateIndexes run once more, from its first index, by the call l that
\* has returned
IndexedAgain(S, l) == run(TableName, S, [l EXCEPT !.pc = "ix_get", !.i = 1])

\* C31: when a create or an update has returned and the identifier is
\* listed in the index entry of each indexed value of the record it wrote,
\* running updateIndexes again for that identifier and record leaves every
\* key of the backend as it is and issues no put.
C31_AddToIndexIdempotent ==
  ( /\ (Succeeded("create") \/ Succeeded("update"))
    /\ ListedEverywhere(storage, loc[1].id, ixData(loc[1])) ) =>
    /\ IndexedAgain(storage, loc[1]).st = storage
    /\ IndexedAgain(storage, loc[1]).l.nw = loc[1].nw

\* a create has listed its identifier in entries that list another
\* identifier too
C31_Witness ==
  /\ Succeeded("create")
  /\ ListedEverywhere(storage, loc[1].id, loc[1].data)
  /\ loc[1].nw = 1 + Len(Indexes)
  /\ \A i \in 1..Len(Indexes) :
       Len(idsOf(Get(storage, getIndexKey(TableName, Indexes[i],
                                          Prop(loc[1].data, Indexes[i]))))) = 2

\* the date fields of the record type with two of them
AuditDates == {"createdAt", "updatedAt"}

\* C32: for a record type whose schema declares two date fields, a record
\* passes the date range filter exactly when each of its two date fields is
\* strictly after the after-bound (when one is set) and strictly before the
\* before-bound (when one is set).
C32_EveryDateFieldChecked ==
  (loc[1].op = "query" /\ loc[1].pc = "done" /\ Len(loc[1].recs) = 1
     /\ DOMAIN loc[1].recs[1] = {"id"} \cup AuditDates) =>
    LET r == loc[1].recs[1]
        q == loc[1].q
    IN (loc[1].out = <<r>>) <=>
         \A f \in AuditDates :
           /\ q.after # Undefined => r[f].n > q.after.n
           /\ q.before # Undefined => r[f].n < q.before.n

\* a record is filtered out although its first date field lies strictly
\* between the two bounds of the query: its second date field does not
C32_Witness ==
  /\ loc[1].op = "query" /\ loc[1].pc = "done" /\ Len(loc[1].recs) = 1
  /\ DOMAIN loc[1].recs[1] = {"id"} \cup AuditDates
  /\ loc[1].q.after # Undefined /\ loc[1].q.before # Undefined
  /\ loc[1].recs[1]["createdAt"].n > loc[1].q.after.n
  /\ loc[1].recs[1]["createdAt"].n < loc[1].q.before.n
  /\ loc[1].recs[1]["updatedAt"].n >= loc[1].q.before.n
  /\ loc[1].out = <<>>

\* C33: after any sequence of create, update and delete, the record stored
\* under the key of identifier k has its id field equal to k.
C33_IdFieldIsKey ==
  \A k \in StoredIds(storage) : StoredRecord(storage, k)["id"] = Str(k)

\* the chained calls whose argument the options q carry
CallsOf(q) == {c \in ChainedCalls : chainCall(q, c) = q}

\* the sequence execute() returns on backend S for the chain
Executed(S, where, chain) ==
  run(TableName, S, Call("query", "q_begin", <<>>, <<>>,
                         chainCalls(whereBuilder(where), chain))).l.out

\* execute() returns the same sequence for every order of the chained calls
SameInEveryOrder(S, l) ==
  \A c \in Chains :
    {c[i] : i \in DOMAIN c} = CallsOf(l.q) => Executed(S, l.q.where, c) = l.out

\* the result is the first n records of the sorted sequence of matches
FirstNOfSorted(l) ==
  /\ Range(l.out) \subseteq Matches(l)
  /\ FirstOfSorted(l)
  /\ \A i \in 1..(Len(l.out) - 1) :
       IF l.q.orderBy.direction = "asc"
         THEN ~Precedes(l.out[i + 1][l.q.orderBy.field], l.out[i][l.q.orderBy.field])
         ELSE ~Precedes(l.out[i][l.q.orderBy.field], l.out[i + 1][l.q.orderBy.field])
  /\ Len(l.out) = IF l.q.limit < Cardinality(Matches(l))
                    THEN l.q.limit ELSE Cardinality(Matches(l))

\* C34: execute() returns the same sequence whatever the order in which
\* after, before, limit and orderBy were chained, and with limit(n) and
\* orderBy chained it returns the first n records of the sorted sequence of
\* the records that pass the conditions and the date bounds.
C34_ChainOrderIrrelevant ==
  Succeeded("query") =>
    /\ SameInEveryOrder(storage, loc[1])
    /\ (loc[1].q.limit >= 0 /\ loc[1].q.orderBy # NoOrder) => FirstNOfSorted(loc[1])

\* C35: when find, query (all and execute included) or count has returned,
\* the call has issued no put and no delete, and every key of the backend
\* holds what it held when the call was made.
C35_ReadsWriteNothing ==
  (Returned("find") \/ Returned("query") \/ Returned("count")) =>
    /\ loc[1].nw = 0
    /\ storage = pre

\* a read has returned on a backend that holds records and index entries:
\* all() has returned two records, or find a record, or count a positive
\* number
C35_Witness ==
  /\ \E k \in DOMAIN storage : storage[k].kind = "idx"
  /\ \/ Succeeded("query") /\ ~loc[1].q.hasWhere /\ Len(loc[1].out) = 2
     \/ Succeeded("find") /\ loc[1].found
     \/ Succeeded("count") /\ loc[1].n > 0

\* the sequence lists no element twice
NoRepeat(seq) == \A i \in DOMAIN seq, j \in DOMAIN seq : seq[i] = seq[j] => i = j

\* C36: in every state, whatever the interleaving of the backend calls of
\* concurrent create, update and delete calls, no index entry lists an
\* identifier more than once.
C36_NoDuplicateInEntry ==
  \A k \in DOMAIN storage : storage[k].kind = "idx" => NoRepeat(storage[k].ids)

\* two callers are adding the same identifier to the same index entry: one
\* has put it, the other read the entry before that put and is about to put
C36_Witness ==
  \E p \in Procs, o \in Procs :
    /\ p # o
    /\ loc[p].pc = "ix_put" /\ loc[o].op \in {"create", "update"}
    /\ loc[p].id = loc[o].id
    /\ LET indexKey == getIndexKey(TableName, Indexes[loc[p].i],
                                   Prop(ixData(loc[p]), Indexes[loc[p].i]))
       IN /\ ~includes(loc[p].ids, loc[p].id)
          /\ includes(idsOf(Get(storage, indexKey)), loc[p].id)

\* C37: the put of create is not conditional on the existence check: when
\* the backend serves the put of a create, the record of that create is
\* stored under the key whatever the key held (a record another create of
\* the same identifier has put since the check included), and the call
\* goes on to its index update instead of failing.
C37_CreatePutUnconditional ==
  [][\A p \in Procs :
       (loc[p].op = "create" /\ loc[p].pc = "c_put" /\ loc'[p] # loc[p]) =>
         /\ loc'[p].status # "error"
         /\ Get(storage', getRecordKey(TableName, loc[p].id)) =
              RecEntry(serialize(loc[p].data))]_vars

\* two concurrent creates of the same identifier with different workspaceId
\* have both returned successfully; the stored record is the one of the
\* later put and the identifier is listed in the workspaceId entries of
\* both records
C37_Witness ==
  \E p \in Procs, o \in Procs :
    /\ p # o
    /\ loc[p].op = "create" /\ loc[p].pc = "done" /\ loc[p].status = "ok"
    /\ loc[o].op = "create" /\ loc[o].pc = "done" /\ loc[o].status = "ok"
    /\ loc[p].id = loc[o].id
    /\ loc[p].data["workspaceId"] # loc[o].data["workspaceId"]
    /\ StoredRecord(storage, loc[p].id) = loc[o].data
    /\ EntriesListing(storage, "workspaceId", loc[p].id) =
         {getIndexKey(TableName, "workspaceId", loc[p].data["workspaceId"]),
          getIndexKey(TableName, "workspaceId", loc[o].data["workspaceId"])}

\* the index entries of backend S
IndexEntries(S) == {<<k, S[k]>> : k \in {x \in DOMAIN S : S[x].kind = "idx"}}

\* C38: the put of update is not conditional on the record it read: when
\* the backend serves the put of an update, the merged record is stored
\* under the key even if a delete has removed the record since the read,
\* the call does not fail, and an update that changed no indexed field
\* returns there, leaving every index entry as the delete left it.
C38_UpdatePutUnconditional ==
  [][\A p \in Procs :
       (loc[p].op = "update" /\ loc[p].pc = "u_put" /\ loc'[p] # loc[p]) =>
         /\ loc'[p].status # "error"
         /\ Get(storage', getRecordKey(TableName, loc[p].id)) =
              RecEntry(serialize(loc[p].updated))
         /\ ~loc[p].changed =>
              /\ loc'[p].pc = "done" /\ loc'[p].status = "ok"
              /\ IndexEntries(storage') = IndexEntries(storage)]_vars

\* an update and a delete of the same identifier have both finished, the
\* delete returned true and the update succeeded, and find returns a record
\* for the identifier, which no index entry lists
C38_Witness ==
  \E p \in Procs, o \in Procs :
    /\ loc[p].op = "update" /\ loc[p].pc = "done" /\ loc[p].status = "ok"
    /\ loc[o].op = "delete" /\ loc[o].pc = "done" /\ loc[o].retb
    /\ loc[p].id = loc[o].id
    /\ find(TableName, storage, loc[p].id).found
    /\ StoredRecord(storage, loc[p].id) = loc[p].updated
    /\ ~ListedAnywhere(storage, loc[p].id)

====
